---- MODULE Spec2Model ----
(***************************************************************************)
(* The allocation endpoints of the HTTP agent                              *)
(* (command/agent/alloc_endpoint.go).                                      *)
(*                                                                         *)
(* One request is handled at a time: a handler action takes the agent from *)
(* "idle" to "done" and records the request, what the environment answered *)
(* and everything the handler did (the RPC calls it issued, whether it     *)
(* asked the resolver, what it returned, what it did to the allocation     *)
(* objects the backend handed it).  Respond discards the per-request       *)
(* record.                                                                 *)
(***************************************************************************)
EXTENDS Integers, Sequences, FiniteSets, TLC

VARIABLES phase, endpoint, req, env, calls, resolved, ret, heap, ops

vars == <<phase, endpoint, req, env, calls, resolved, ret, heap, ops>>

(* ------------------------------ bounds -------------------------------- *)

\* allocation ids are 1..MaxAllocID; 0 stands for the empty string
MaxAllocID == 2
\* node ids are 1..MaxNodeID; 0 stands for the empty string
MaxNodeID == 1
\* payload bytes are 0..MaxByte
MaxByte == 1
\* a job payload holds at most MaxPayloadLen bytes
MaxPayloadLen == 2
\* an Alloc.List reply holds at most MaxListLen stubs
MaxListLen == 2

AllocIDs == 1..MaxAllocID
NodeIDs == 0..MaxNodeID
Bytes == 0..MaxByte
Methods == {"GET", "POST", "PUT", "DELETE"}
TaskNames == {"", "web"}
SignalNames == {"", "SIGHUP"}

SeqsUpTo(S, n) == UNION {[1..k -> S] : k \in 0..n}

Payloads == SeqsUpTo(Bytes, MaxPayloadLen)

(* ------------------------------ errors -------------------------------- *)

\* the nil error
NoError == [nil |-> TRUE, code |-> 0, msg |-> ""]

\* an error that carries no HTTP code (errors.New, fmt.Errorf)
Errorf(msg) == [nil |-> FALSE, code |-> 0, msg |-> msg]

CodedError(code, msg) == [nil |-> FALSE, code |-> code, msg |-> msg]

allocNotFoundErr == "allocation not found"

resourceNotFoundErr == "resource not found"

ErrInvalidMethod == "Invalid method"

NoRouteMsg == "No local Node and node_id not provided"

\* structs.ErrPermissionDenied
ErrPermissionDenied == Errorf("Permission denied")

\* the error ClientAllocRequest returns when the agent runs no client
clientNotRunning == Errorf("node is not running a Nomad Client")

\* what json.Decoder.Decode / decodeBody return on a body they cannot decode
BodyDecodeError == Errorf("invalid character")

NoNodeConnMsgs == {"No path to node", "rpc error: No path to node"}

UnknownAllocationMsgs == {"Unknown allocation", "rpc error: Unknown allocation"}

OtherRPCMsgs == {"rpc error: Permission denied"}

\* the errors a transport can answer a call with
RPCErrors == {Errorf(m) : m \in NoNodeConnMsgs \cup UnknownAllocationMsgs \cup OtherRPCMsgs}

IsErrNoNodeConn(err) == ~err.nil /\ err.msg \in NoNodeConnMsgs

IsErrUnknownAllocation(err) == ~err.nil /\ err.msg \in UnknownAllocationMsgs

(* ------------------------------ values -------------------------------- *)

Nil == [nil |-> TRUE, v |-> 0]

Some(x) == [nil |-> FALSE, v |-> x]

NoBody == [ok |-> TRUE, AllocID |-> 0, TaskName |-> "", Task |-> "", Signal |-> ""]

\* a request body: ok says whether it decodes; the fields are what it holds
Bodies == [ok : BOOLEAN, AllocID : 0..MaxAllocID, TaskName : TaskNames,
           Task : TaskNames, Signal : SignalNames]

EmptyHeap == [allocs |-> <<>>, jobs |-> <<>>]

NoOps == [validated |-> 0, fs |-> 0, streamed |-> 0, decoded |-> 0, copied |-> 0]

NoReq == [method |-> "GET", tokens |-> <<>>, nodeID |-> 0, task |-> "", body |-> NoBody]

NoEnv == [useLocalClient |-> FALSE, useClientRPC |-> FALSE, useServerRPC |-> FALSE,
          rpcErr |-> NoError, parseAbort |-> FALSE, clientRunning |-> FALSE,
          tokenValid |-> FALSE, fsErr |-> NoError, snapErr |-> NoError,
          listReply |-> Nil, outAlloc |-> 0, heap |-> EmptyHeap]

\* what a handler did and returned
Return(cs, res, val, err) ==
    [calls |-> cs, resolved |-> res, val |-> val, err |-> err,
     heap |-> EmptyHeap, ops |-> NoOps]

(* --------------------------- collaborators ---------------------------- *)

\* one call on a transport: the call as issued and the transport's answer
RPC(transport, method, args, e) ==
    [calls |-> <<[transport |-> transport, method |-> method, args |-> args]>>,
     err |-> e.rpcErr]

\* s.rpcHandlerForAlloc / s.rpcHandlerForNode: the three flags
rpcHandlerFor(e) ==
    [useLocalClient |-> e.useLocalClient, useClientRPC |-> e.useClientRPC,
     useServerRPC |-> e.useServerRPC]

\* structs.GenericResponse as the transport leaves it
GenericResponse(rpc) == [filled |-> (rpc.calls # <<>> /\ rpc.err.nil)]

\* snappy block format: the first byte declares the length of the data that follows
snappyDecode(p) ==
    IF Len(p) > 0 /\ p[1] = Len(p) - 1
    THEN [err |-> NoError, decoded |-> Tail(p)]
    ELSE [err |-> Errorf("snappy: corrupt input"), decoded |-> <<>>]

\* Allocation.Copy: a new allocation object with a new job object
Copy(h, ref) ==
    LET a == h.allocs[ref]
        jobs2 == IF a.Job # 0 THEN Append(h.jobs, h.jobs[a.Job]) ELSE h.jobs
        a2 == [a EXCEPT !.Job = IF a.Job # 0 THEN Len(jobs2) ELSE 0]
    IN  [heap |-> [allocs |-> Append(h.allocs, a2), jobs |-> jobs2],
         ref |-> Len(h.allocs) + 1]

\* Allocation.SetEventDisplayMessages: fills the display messages of the object's events
SetEventDisplayMessages(h, ref) == [h EXCEPT !.allocs[ref].displayed = TRUE]

\* AllocListStub.SetEventDisplayMessages
StubSetEventDisplayMessages(stub) == [stub EXCEPT !.displayed = TRUE]

(* ------------------------------ handlers ------------------------------ *)


\* AllocsRequest without the nil check of lines 35-37
AllocsRequest_NilList(r, e) ==
    IF r.method # "GET" THEN Return(<<>>, 0, Nil, CodedError(405, ErrInvalidMethod))
    ELSE IF e.parseAbort THEN Return(<<>>, 0, Nil, NoError)
    ELSE LET rpc == RPC("agent.RPC", "Alloc.List", [Region |-> "global"], e)
         IN  IF ~rpc.err.nil THEN Return(rpc.calls, 0, Nil, rpc.err)
             ELSE IF e.listReply.nil THEN Return(rpc.calls, 0, Nil, NoError)
             ELSE LET allocations == e.listReply.v
                      shown == [i \in 1..Len(allocations) |->
                                   StubSetEventDisplayMessages(allocations[i])]
                  IN  Return(rpc.calls, 0, Some(shown), NoError)

AllocsRequest(r, e) ==
    IF r.method # "GET" THEN Return(<<>>, 0, Nil, CodedError(405, ErrInvalidMethod))
    ELSE IF e.parseAbort THEN Return(<<>>, 0, Nil, NoError)
    ELSE LET rpc == RPC("agent.RPC", "Alloc.List", [Region |-> "global"], e)
         IN  IF ~rpc.err.nil THEN Return(rpc.calls, 0, Nil, rpc.err)
             ELSE LET allocations == IF e.listReply.nil THEN <<>> ELSE e.listReply.v
                      shown == [i \in 1..Len(allocations) |->
                                   StubSetEventDisplayMessages(allocations[i])]
                  IN  Return(rpc.calls, 0, Some(shown), NoError)


\* allocGet storing the decoded payload without the alloc.Copy() of line 96
allocGet_NoCopy(allocID, r, e) ==
    IF r.method # "GET" THEN Return(<<>>, 0, Nil, CodedError(405, ErrInvalidMethod))
    ELSE IF e.parseAbort THEN Return(<<>>, 0, Nil, NoError)
    ELSE LET rpc == RPC("agent.RPC", "Alloc.GetAlloc", [AllocID |-> allocID], e)
             got(h, o) == [Return(rpc.calls, 0, Nil, NoError) EXCEPT !.heap = h, !.ops = o]
         IN  IF ~rpc.err.nil THEN [got(e.heap, NoOps) EXCEPT !.err = rpc.err]
             ELSE IF e.outAlloc = 0
             THEN [got(e.heap, NoOps) EXCEPT !.err = CodedError(404, "alloc not found")]
             ELSE LET alloc == e.outAlloc
                      a == e.heap.allocs[alloc]
                  IN  IF a.Job # 0 /\ Len(e.heap.jobs[a.Job].Payload) # 0
                      THEN LET d == snappyDecode(e.heap.jobs[a.Job].Payload)
                               o1 == [NoOps EXCEPT !.decoded = 1]
                           IN  IF ~d.err.nil
                               THEN [got(e.heap, o1) EXCEPT !.err = d.err]
                               ELSE LET h2 == [e.heap EXCEPT
                                                  !.jobs[a.Job].Payload = d.decoded]
                                        h3 == SetEventDisplayMessages(h2, alloc)
                                    IN  [got(h3, o1) EXCEPT !.val = Some(alloc)]
                      ELSE [got(SetEventDisplayMessages(e.heap, alloc), NoOps)
                               EXCEPT !.val = Some(alloc)]

allocGet(allocID, r, e) ==
    IF r.method # "GET" THEN Return(<<>>, 0, Nil, CodedError(405, ErrInvalidMethod))
    ELSE IF e.parseAbort THEN Return(<<>>, 0, Nil, NoError)
    ELSE LET rpc == RPC("agent.RPC", "Alloc.GetAlloc", [AllocID |-> allocID], e)
             got(h, o) == [Return(rpc.calls, 0, Nil, NoError) EXCEPT !.heap = h, !.ops = o]
         IN  IF ~rpc.err.nil THEN [got(e.heap, NoOps) EXCEPT !.err = rpc.err]
             ELSE IF e.outAlloc = 0
             THEN [got(e.heap, NoOps) EXCEPT !.err = CodedError(404, "alloc not found")]
             ELSE LET alloc == e.outAlloc
                      a == e.heap.allocs[alloc]
                  IN  IF a.Job # 0 /\ Len(e.heap.jobs[a.Job].Payload) # 0
                      THEN LET d == snappyDecode(e.heap.jobs[a.Job].Payload)
                               o1 == [NoOps EXCEPT !.decoded = 1]
                           IN  IF ~d.err.nil
                               THEN [got(e.heap, o1) EXCEPT !.err = d.err]
                               ELSE LET c == Copy(e.heap, alloc)
                                        j2 == c.heap.allocs[c.ref].Job
                                        h2 == [c.heap EXCEPT !.jobs[j2].Payload = d.decoded]
                                        h3 == SetEventDisplayMessages(h2, c.ref)
                                    IN  [got(h3, [o1 EXCEPT !.copied = 1])
                                            EXCEPT !.val = Some(c.ref)]
                      ELSE [got(SetEventDisplayMessages(e.heap, alloc), NoOps)
                               EXCEPT !.val = Some(alloc)]

allocStop(allocID, r, e) ==
    IF ~(r.method = "POST" \/ r.method = "PUT")
    THEN Return(<<>>, 0, Nil, CodedError(405, ErrInvalidMethod))
    ELSE LET rpc == RPC("agent.RPC", "Alloc.Stop", [AllocID |-> allocID], e)
         IN  Return(rpc.calls, 0, Some(GenericResponse(rpc)), rpc.err)

AllocSpecificRequest(r, e) ==
    IF Len(r.tokens) > 2 \/ Len(r.tokens) < 1
    THEN Return(<<>>, 0, Nil, CodedError(404, resourceNotFoundErr))
    ELSE IF Len(r.tokens) = 1 THEN allocGet(r.tokens[1], r, e)
    ELSE IF r.tokens[2] = "stop" THEN allocStop(r.tokens[1], r, e)
    ELSE Return(<<>>, 0, Nil, CodedError(404, resourceNotFoundErr))

ClientGCRequest(r, e) ==
    LET args == [NodeID |-> r.nodeID]
        h == rpcHandlerFor(e)
        rpc == IF h.useLocalClient
               THEN RPC("Client().ClientRPC", "Allocations.GarbageCollectAll", args, e)
               ELSE IF h.useClientRPC
               THEN RPC("Client().RPC", "ClientAllocations.GarbageCollectAll", args, e)
               ELSE IF h.useServerRPC
               THEN RPC("Server().RPC", "ClientAllocations.GarbageCollectAll", args, e)
               ELSE [calls |-> <<>>, err |-> CodedError(400, NoRouteMsg)]
        rpcErr == IF ~rpc.err.nil /\ IsErrNoNodeConn(rpc.err)
                  THEN CodedError(404, rpc.err.msg)
                  ELSE rpc.err
    IN  Return(rpc.calls, 1, Nil, rpcErr)


\* allocRestart calling the server with the local client's method name
allocRestart_ServerName(allocID, r, e) ==
    LET args0 == [AllocID |-> allocID, TaskName |-> ""]
    IN  IF ~r.body.ok THEN Return(<<>>, 0, Nil, BodyDecodeError)
        ELSE LET args == IF r.body.TaskName # ""
                         THEN [args0 EXCEPT !.TaskName = r.body.TaskName]
                         ELSE args0
                 h == rpcHandlerFor(e)
                 rpc == IF h.useLocalClient
                        THEN RPC("Client().ClientRPC", "Allocations.Restart", args, e)
                        ELSE IF h.useClientRPC
                        THEN RPC("Client().RPC", "ClientAllocations.Restart", args, e)
                        ELSE IF h.useServerRPC
                        THEN RPC("Server().RPC", "Allocations.Restart", args, e)
                        ELSE [calls |-> <<>>, err |-> CodedError(400, NoRouteMsg)]
                 rpcErr == IF ~rpc.err.nil
                              /\ (IsErrNoNodeConn(rpc.err) \/ IsErrUnknownAllocation(rpc.err))
                           THEN CodedError(404, rpc.err.msg)
                           ELSE rpc.err
             IN  Return(rpc.calls, 1, Some(GenericResponse(rpc)), rpcErr)

allocRestart(allocID, r, e) ==
    LET args0 == [AllocID |-> allocID, TaskName |-> ""]
    IN  IF ~r.body.ok THEN Return(<<>>, 0, Nil, BodyDecodeError)
        ELSE LET args == IF r.body.TaskName # ""
                         THEN [args0 EXCEPT !.TaskName = r.body.TaskName]
                         ELSE args0
                 h == rpcHandlerFor(e)
                 rpc == IF h.useLocalClient
                        THEN RPC("Client().ClientRPC", "Allocations.Restart", args, e)
                        ELSE IF h.useClientRPC
                        THEN RPC("Client().RPC", "ClientAllocations.Restart", args, e)
                        ELSE IF h.useServerRPC
                        THEN RPC("Server().RPC", "ClientAllocations.Restart", args, e)
                        ELSE [calls |-> <<>>, err |-> CodedError(400, NoRouteMsg)]
                 rpcErr == IF ~rpc.err.nil
                              /\ (IsErrNoNodeConn(rpc.err) \/ IsErrUnknownAllocation(rpc.err))
                           THEN CodedError(404, rpc.err.msg)
                           ELSE rpc.err
             IN  Return(rpc.calls, 1, Some(GenericResponse(rpc)), rpcErr)


\* allocGC trying the server after a failed call on the client channel
allocGC_Failover(allocID, r, e) ==
    LET args == [AllocID |-> allocID]
        h == rpcHandlerFor(e)
        first == IF h.useLocalClient
                 THEN RPC("Client().ClientRPC", "Allocations.GarbageCollect", args, e)
                 ELSE IF h.useClientRPC
                 THEN RPC("Client().RPC", "ClientAllocations.GarbageCollect", args, e)
                 ELSE IF h.useServerRPC
                 THEN RPC("Server().RPC", "ClientAllocations.GarbageCollect", args, e)
                 ELSE [calls |-> <<>>, err |-> CodedError(400, NoRouteMsg)]
        rpc == IF ~h.useLocalClient /\ h.useClientRPC /\ h.useServerRPC /\ ~first.err.nil
               THEN LET second == RPC("Server().RPC", "ClientAllocations.GarbageCollect",
                                      args, e)
                    IN  [calls |-> first.calls \o second.calls, err |-> second.err]
               ELSE first
        rpcErr == IF ~rpc.err.nil
                     /\ (IsErrNoNodeConn(rpc.err) \/ IsErrUnknownAllocation(rpc.err))
                  THEN CodedError(404, rpc.err.msg)
                  ELSE rpc.err
    IN  Return(rpc.calls, 1, Nil, rpcErr)

\* allocGC testing only IsErrNoNodeConn, as ClientGCRequest does
allocGC_NoConnOnly(allocID, r, e) ==
    LET args == [AllocID |-> allocID]
        h == rpcHandlerFor(e)
        rpc == IF h.useLocalClient
               THEN RPC("Client().ClientRPC", "Allocations.GarbageCollect", args, e)
               ELSE IF h.useClientRPC
               THEN RPC("Client().RPC", "ClientAllocations.GarbageCollect", args, e)
               ELSE IF h.useServerRPC
               THEN RPC("Server().RPC", "ClientAllocations.GarbageCollect", args, e)
               ELSE [calls |-> <<>>, err |-> CodedError(400, NoRouteMsg)]
        rpcErr == IF ~rpc.err.nil /\ IsErrNoNodeConn(rpc.err)
                  THEN CodedError(404, rpc.err.msg)
                  ELSE rpc.err
    IN  Return(rpc.calls, 1, Nil, rpcErr)

allocGC(allocID, r, e) ==
    LET args == [AllocID |-> allocID]
        h == rpcHandlerFor(e)
        rpc == IF h.useLocalClient
               THEN RPC("Client().ClientRPC", "Allocations.GarbageCollect", args, e)
               ELSE IF h.useClientRPC
               THEN RPC("Client().RPC", "ClientAllocations.GarbageCollect", args, e)
               ELSE IF h.useServerRPC
               THEN RPC("Server().RPC", "ClientAllocations.GarbageCollect", args, e)
               ELSE [calls |-> <<>>, err |-> CodedError(400, NoRouteMsg)]
        rpcErr == IF ~rpc.err.nil
                     /\ (IsErrNoNodeConn(rpc.err) \/ IsErrUnknownAllocation(rpc.err))
                  THEN CodedError(404, rpc.err.msg)
                  ELSE rpc.err
    IN  Return(rpc.calls, 1, Nil, rpcErr)


\* allocSignal without the args.AllocID = allocID of line 272
allocSignal_BodyAllocID(allocID, r, e) ==
    IF ~(r.method = "POST" \/ r.method = "PUT")
    THEN Return(<<>>, 0, Nil, CodedError(405, ErrInvalidMethod))
    ELSE IF ~r.body.ok
    THEN Return(<<>>, 0, Nil, CodedError(400, "Failed to decode body: invalid character"))
    ELSE LET args == [AllocID |-> r.body.AllocID, Task |-> r.body.Task,
                      Signal |-> r.body.Signal]
             h == rpcHandlerFor(e)
             rpc == IF h.useLocalClient
                    THEN RPC("Client().ClientRPC", "Allocations.Signal", args, e)
                    ELSE IF h.useClientRPC
                    THEN RPC("Client().RPC", "ClientAllocations.Signal", args, e)
                    ELSE IF h.useServerRPC
                    THEN RPC("Server().RPC", "ClientAllocations.Signal", args, e)
                    ELSE [calls |-> <<>>, err |-> CodedError(400, NoRouteMsg)]
             rpcErr == IF ~rpc.err.nil
                          /\ (IsErrNoNodeConn(rpc.err) \/ IsErrUnknownAllocation(rpc.err))
                       THEN CodedError(404, rpc.err.msg)
                       ELSE rpc.err
         IN  Return(rpc.calls, 1, Some(GenericResponse(rpc)), rpcErr)

allocSignal(allocID, r, e) ==
    IF ~(r.method = "POST" \/ r.method = "PUT")
    THEN Return(<<>>, 0, Nil, CodedError(405, ErrInvalidMethod))
    ELSE IF ~r.body.ok
    THEN Return(<<>>, 0, Nil, CodedError(400, "Failed to decode body: invalid character"))
    ELSE LET decoded == [AllocID |-> r.body.AllocID, Task |-> r.body.Task,
                         Signal |-> r.body.Signal]
             args == [decoded EXCEPT !.AllocID = allocID]
             h == rpcHandlerFor(e)
             rpc == IF h.useLocalClient
                    THEN RPC("Client().ClientRPC", "Allocations.Signal", args, e)
                    ELSE IF h.useClientRPC
                    THEN RPC("Client().RPC", "ClientAllocations.Signal", args, e)
                    ELSE IF h.useServerRPC
                    THEN RPC("Server().RPC", "ClientAllocations.Signal", args, e)
                    ELSE [calls |-> <<>>, err |-> CodedError(400, NoRouteMsg)]
             rpcErr == IF ~rpc.err.nil
                          /\ (IsErrNoNodeConn(rpc.err) \/ IsErrUnknownAllocation(rpc.err))
                       THEN CodedError(404, rpc.err.msg)
                       ELSE rpc.err
         IN  Return(rpc.calls, 1, Some(GenericResponse(rpc)), rpcErr)


\* allocSnapshot asking for the filesystem handle before it validates the token
allocSnapshot_ValidateLate(allocID, r, e) ==
    LET done(o, err) == [Return(<<>>, 0, Nil, err) EXCEPT !.ops = o]
        o1 == [NoOps EXCEPT !.fs = 1]
        o2 == [o1 EXCEPT !.validated = 1]
        o3 == [o2 EXCEPT !.streamed = 1]
    IN  IF ~e.fsErr.nil THEN done(o1, Errorf(allocNotFoundErr))
        ELSE IF ~e.tokenValid THEN done(o2, ErrPermissionDenied)
        ELSE IF ~e.snapErr.nil THEN done(o3, Errorf("error making snapshot: broken pipe"))
        ELSE done(o3, NoError)

allocSnapshot(allocID, r, e) ==
    LET done(o, err) == [Return(<<>>, 0, Nil, err) EXCEPT !.ops = o]
        o1 == [NoOps EXCEPT !.validated = 1]
        o2 == [o1 EXCEPT !.fs = 1]
        o3 == [o2 EXCEPT !.streamed = 1]
    IN  IF ~e.tokenValid THEN done(o1, ErrPermissionDenied)
        ELSE IF ~e.fsErr.nil THEN done(o2, Errorf(allocNotFoundErr))
        ELSE IF ~e.snapErr.nil THEN done(o3, Errorf("error making snapshot: broken pipe"))
        ELSE done(o3, NoError)


\* allocStats falling back to the server when the resolver names no route
allocStats_NoRouteServer(allocID, r, e) ==
    LET args == [AllocID |-> allocID, Task |-> r.task]
        h == rpcHandlerFor(e)
        rpc == IF h.useLocalClient
               THEN RPC("Client().ClientRPC", "Allocations.Stats", args, e)
               ELSE IF h.useClientRPC
               THEN RPC("Client().RPC", "ClientAllocations.Stats", args, e)
               ELSE RPC("Server().RPC", "ClientAllocations.Stats", args, e)
        rpcErr == IF ~rpc.err.nil
                     /\ (IsErrNoNodeConn(rpc.err) \/ IsErrUnknownAllocation(rpc.err))
                  THEN CodedError(404, rpc.err.msg)
                  ELSE rpc.err
        stats == IF GenericResponse(rpc).filled THEN Some("stats") ELSE Nil
    IN  Return(rpc.calls, 1, stats, rpcErr)

allocStats(allocID, r, e) ==
    LET args == [AllocID |-> allocID, Task |-> r.task]
        h == rpcHandlerFor(e)
        rpc == IF h.useLocalClient
               THEN RPC("Client().ClientRPC", "Allocations.Stats", args, e)
               ELSE IF h.useClientRPC
               THEN RPC("Client().RPC", "ClientAllocations.Stats", args, e)
               ELSE IF h.useServerRPC
               THEN RPC("Server().RPC", "ClientAllocations.Stats", args, e)
               ELSE [calls |-> <<>>, err |-> CodedError(400, NoRouteMsg)]
        rpcErr == IF ~rpc.err.nil
                     /\ (IsErrNoNodeConn(rpc.err) \/ IsErrUnknownAllocation(rpc.err))
                  THEN CodedError(404, rpc.err.msg)
                  ELSE rpc.err
        stats == IF GenericResponse(rpc).filled THEN Some("stats") ELSE Nil
    IN  Return(rpc.calls, 1, stats, rpcErr)

ClientAllocRequest(r, e) ==
    IF Len(r.tokens) # 2 THEN Return(<<>>, 0, Nil, CodedError(404, resourceNotFoundErr))
    ELSE LET allocID == r.tokens[1]
         IN  CASE r.tokens[2] = "stats" -> allocStats(allocID, r, e)
               [] r.tokens[2] = "snapshot" ->
                     IF ~e.clientRunning THEN Return(<<>>, 0, Nil, clientNotRunning)
                     ELSE allocSnapshot(allocID, r, e)
               [] r.tokens[2] = "restart" -> allocRestart(allocID, r, e)
               [] r.tokens[2] = "gc" -> allocGC(allocID, r, e)
               [] r.tokens[2] = "signal" -> allocSignal(allocID, r, e)
               [] OTHER -> Return(<<>>, 0, Nil, CodedError(404, resourceNotFoundErr))

(* ------------------------------ actions ------------------------------- *)

Init ==
    /\ phase = "idle"
    /\ endpoint = "none"
    /\ req = NoReq
    /\ env = NoEnv
    /\ calls = <<>>
    /\ resolved = 0
    /\ ret = [val |-> Nil, err |-> NoError]
    /\ heap = EmptyHeap
    /\ ops = NoOps

\* the handler of endpoint name ran on request r in environment e and returned o
Handled(name, r, e, o) ==
    /\ phase' = "done"
    /\ endpoint' = name
    /\ req' = r
    /\ env' = e
    /\ calls' = o.calls
    /\ resolved' = o.resolved
    /\ ret' = [val |-> o.val, err |-> o.err]
    /\ heap' = o.heap
    /\ ops' = o.ops

\* the answers of the resolver and of the transport
Routes == {[NoEnv EXCEPT !.useLocalClient = l, !.useClientRPC = c, !.useServerRPC = s,
                         !.rpcErr = x] :
              l \in BOOLEAN, c \in BOOLEAN, s \in BOOLEAN, x \in RPCErrors \cup {NoError}}

\* the answers of the agent RPC
AgentAnswers == {[NoEnv EXCEPT !.rpcErr = x, !.parseAbort = p] :
                    x \in RPCErrors \cup {NoError}, p \in BOOLEAN}

Stubs == [ID : AllocIDs, displayed : BOOLEAN]

List ==
    /\ phase = "idle"
    /\ \E m \in Methods, e0 \in AgentAnswers,
           l \in {Nil} \cup {Some(s) : s \in SeqsUpTo(Stubs, MaxListLen)} :
            LET r == [NoReq EXCEPT !.method = m]
                e == [e0 EXCEPT !.listReply = l]
            IN  Handled("List", r, e, AllocsRequest(r, e))

\* the allocation objects Alloc.GetAlloc can hand back: none, one without a job, one
\* with a job and any payload
GetReplies ==
    {[outAlloc |-> 0, heap |-> EmptyHeap]}
    \cup {[outAlloc |-> 1,
           heap |-> [allocs |-> <<[Job |-> 0, displayed |-> d]>>, jobs |-> <<>>]] :
             d \in BOOLEAN}
    \cup {[outAlloc |-> 1,
           heap |-> [allocs |-> <<[Job |-> 1, displayed |-> d]>>,
                     jobs |-> <<[Payload |-> p]>>]] :
             d \in BOOLEAN, p \in Payloads}

Get ==
    /\ phase = "idle"
    /\ \E m \in Methods, id \in AllocIDs, e0 \in AgentAnswers, g \in GetReplies :
            LET r == [NoReq EXCEPT !.method = m, !.tokens = <<id>>]
                e == [e0 EXCEPT !.outAlloc = g.outAlloc, !.heap = g.heap]
            IN  Handled("Get", r, e, AllocSpecificRequest(r, e))

Stop ==
    /\ phase = "idle"
    /\ \E m \in Methods, id \in AllocIDs, e \in AgentAnswers :
            LET r == [NoReq EXCEPT !.method = m, !.tokens = <<id, "stop">>]
            IN  /\ ~e.parseAbort
                /\ Handled("Stop", r, e, AllocSpecificRequest(r, e))

Restart ==
    /\ phase = "idle"
    /\ \E m \in Methods, id \in AllocIDs, b \in Bodies, e \in Routes :
            LET r == [NoReq EXCEPT !.method = m, !.tokens = <<id, "restart">>, !.body = b]
            IN  Handled("Restart", r, e, ClientAllocRequest(r, e))

Signal ==
    /\ phase = "idle"
    /\ \E m \in Methods, id \in AllocIDs, b \in Bodies, e \in Routes :
            LET r == [NoReq EXCEPT !.method = m, !.tokens = <<id, "signal">>, !.body = b]
            IN  Handled("Signal", r, e, ClientAllocRequest(r, e))

GarbageCollect ==
    /\ phase = "idle"
    /\ \E m \in Methods, id \in AllocIDs, e \in Routes :
            LET r == [NoReq EXCEPT !.method = m, !.tokens = <<id, "gc">>]
            IN  Handled("GarbageCollect", r, e, ClientAllocRequest(r, e))

GarbageCollectAll ==
    /\ phase = "idle"
    /\ \E m \in Methods, n \in NodeIDs, e \in Routes :
            LET r == [NoReq EXCEPT !.method = m, !.nodeID = n]
            IN  Handled("GarbageCollectAll", r, e, ClientGCRequest(r, e))

Stats ==
    /\ phase = "idle"
    /\ \E m \in Methods, id \in AllocIDs, t \in TaskNames, e \in Routes :
            LET r == [NoReq EXCEPT !.method = m, !.tokens = <<id, "stats">>, !.task = t]
            IN  Handled("Stats", r, e, ClientAllocRequest(r, e))

Snapshot ==
    /\ phase = "idle"
    /\ \E m \in Methods, id \in AllocIDs, cr \in BOOLEAN, tv \in BOOLEAN,
           fe \in {NoError, Errorf("unknown allocation")},
           se \in {NoError, Errorf("broken pipe")} :
            LET r == [NoReq EXCEPT !.method = m, !.tokens = <<id, "snapshot">>]
                e == [NoEnv EXCEPT !.clientRunning = cr, !.tokenValid = tv,
                                   !.fsErr = fe, !.snapErr = se]
            IN  Handled("Snapshot", r, e, ClientAllocRequest(r, e))

\* a path that names no resource of either router
ResourceNotFound ==
    /\ phase = "idle"
    /\ \E m \in Methods, id \in AllocIDs :
          \E t \in {<<id>>, <<id, "exec">>, <<id, "stop", "now">>} :
            LET r == [NoReq EXCEPT !.method = m, !.tokens = t]
            IN  \/ /\ Len(t) # 1
                   /\ Handled("AllocSpecific", r, NoEnv, AllocSpecificRequest(r, NoEnv))
                \/ Handled("ClientAlloc", r, NoEnv, ClientAllocRequest(r, NoEnv))

\* the response is written and the per-request values are discarded
Respond ==
    /\ phase = "done"
    /\ phase' = "idle"
    /\ endpoint' = "none"
    /\ req' = NoReq
    /\ env' = NoEnv
    /\ calls' = <<>>
    /\ resolved' = 0
    /\ ret' = [val |-> Nil, err |-> NoError]
    /\ heap' = EmptyHeap
    /\ ops' = NoOps

Next ==
    \/ List
    \/ Get
    \/ Stop
    \/ Restart
    \/ Signal
    \/ GarbageCollect
    \/ GarbageCollectAll
    \/ Stats
    \/ Snapshot
    \/ ResourceNotFound
    \/ Respond

Spec == Init /\ [][Next]_vars

(* ------------------------------ claims -------------------------------- *)

RoutedVerbs == {"Restart", "Signal", "GarbageCollect", "GarbageCollectAll", "Stats"}

NoRoute == ~env.useLocalClient /\ ~env.useClientRPC /\ ~env.useServerRPC

\* the transport the three flags select, by precedence
Selected ==
    IF env.useLocalClient THEN "Client().ClientRPC"
    ELSE IF env.useClientRPC THEN "Client().RPC"
    ELSE "Server().RPC"

LocalMethod(verb) ==
    CASE verb = "Restart" -> "Allocations.Restart"
      [] verb = "Signal" -> "Allocations.Signal"
      [] verb = "GarbageCollect" -> "Allocations.GarbageCollect"
      [] verb = "GarbageCollectAll" -> "Allocations.GarbageCollectAll"
      [] verb = "Stats" -> "Allocations.Stats"

ChannelMethod(verb) ==
    CASE verb = "Restart" -> "ClientAllocations.Restart"
      [] verb = "Signal" -> "ClientAllocations.Signal"
      [] verb = "GarbageCollect" -> "ClientAllocations.GarbageCollect"
      [] verb = "GarbageCollectAll" -> "ClientAllocations.GarbageCollectAll"
      [] verb = "Stats" -> "ClientAllocations.Stats"

AgentMethod(verb) ==
    CASE verb = "List" -> "Alloc.List"
      [] verb = "Get" -> "Alloc.GetAlloc"
      [] verb = "Stop" -> "Alloc.Stop"

\* the request a verb builds from the path, the query and the body
RequestOf(verb, r) ==
    CASE verb = "Restart" -> [AllocID |-> r.tokens[1], TaskName |-> r.body.TaskName]
      [] verb = "Signal" -> [AllocID |-> r.tokens[1], Task |-> r.body.Task,
                             Signal |-> r.body.Signal]
      [] verb = "GarbageCollect" -> [AllocID |-> r.tokens[1]]
      [] verb = "GarbageCollectAll" -> [NodeID |-> r.nodeID]
      [] verb = "Stats" -> [AllocID |-> r.tokens[1], Task |-> r.task]

\* C1: a request of Restart, Signal, GarbageCollect, GarbageCollectAll or Stats issues
\* at most one RPC call, on the transport the flags select by precedence (local, then
\* client channel, then server channel), also when that call fails.
C1_OneCallOnSelectedTransport ==
    endpoint \in RoutedVerbs =>
        /\ Len(calls) <= 1
        /\ (resolved = 0 \/ NoRoute) => calls = <<>>
        /\ (resolved = 1 /\ ~NoRoute) =>
              /\ Len(calls) = 1
              /\ calls[1].transport = Selected

C1_Witness ==
    /\ endpoint = "GarbageCollect"
    /\ ~env.useLocalClient /\ env.useClientRPC /\ env.useServerRPC
    /\ ~env.rpcErr.nil
    /\ Len(calls) = 1
    /\ calls[1].transport = "Client().RPC"

\* C2: when the resolver yields no route, Restart, Signal, GarbageCollect,
\* GarbageCollectAll and Stats fail with a 400 error and issue no RPC call.
C2_NoRouteIsBadRequest ==
    (endpoint \in RoutedVerbs /\ resolved = 1 /\ NoRoute) =>
        /\ ~ret.err.nil
        /\ ret.err.code = 400
        /\ calls = <<>>

C2_Witness ==
    /\ endpoint = "Stats"
    /\ resolved = 1
    /\ NoRoute
    /\ ret.err = CodedError(400, NoRouteMsg)

\* C3 as stated: for all five verbs an RPC error recognized as no-connection or as
\* unknown-allocation comes back as a 404 with the original message, every other RPC
\* error unchanged.
C3_Original ==
    (endpoint \in RoutedVerbs /\ Len(calls) = 1) =>
        IF IsErrNoNodeConn(env.rpcErr) \/ IsErrUnknownAllocation(env.rpcErr)
        THEN ret.err = CodedError(404, env.rpcErr.msg)
        ELSE ret.err = env.rpcErr

\* C3 as amended: Restart, Signal, GarbageCollect and Stats return a no-connection or
\* unknown-allocation RPC error as a 404 with the original message; GarbageCollectAll
\* does so for a no-connection error only; every other RPC error is returned unchanged.
C3_NotFoundClassification ==
    (endpoint \in RoutedVerbs /\ Len(calls) = 1) =>
        IF \/ IsErrNoNodeConn(env.rpcErr)
           \/ (endpoint # "GarbageCollectAll" /\ IsErrUnknownAllocation(env.rpcErr))
        THEN ret.err = CodedError(404, env.rpcErr.msg)
        ELSE ret.err = env.rpcErr

C3_Witness ==
    /\ endpoint = "GarbageCollectAll"
    /\ Len(calls) = 1
    /\ IsErrUnknownAllocation(env.rpcErr)
    /\ ret.err = env.rpcErr
    /\ ret.err.code # 404

C5_Original ==
    (endpoint = "Snapshot" /\ ~env.tokenValid) =>
        /\ ret.err = ErrPermissionDenied
        /\ ops.fs = 0
        /\ ops.streamed = 0
        /\ calls = <<>>

\* C5 as amended: Snapshot with an invalid migrate token requests no filesystem handle,
\* streams nothing, asks the resolver nothing and issues no RPC; on an agent that runs
\* a client the token is validated and the request returns PermissionDenied, on an
\* agent that runs none the request ends with clientNotRunning before any validation.
C5_InvalidTokenEndsRequest ==
    (endpoint = "Snapshot" /\ ~env.tokenValid) =>
        /\ ops.fs = 0
        /\ ops.streamed = 0
        /\ resolved = 0
        /\ calls = <<>>
        /\ env.clientRunning => (ret.err = ErrPermissionDenied /\ ops.validated = 1)
        /\ ~env.clientRunning => (ret.err = clientNotRunning /\ ops.validated = 0)

C5_Witness ==
    /\ endpoint = "Snapshot"
    /\ env.clientRunning
    /\ ~env.tokenValid
    /\ env.fsErr.nil
    /\ ops.validated = 1
    /\ ret.err = ErrPermissionDenied

\* the backend answered Get with an allocation object
GotAlloc == endpoint = "Get" /\ Len(calls) = 1 /\ env.rpcErr.nil /\ env.outAlloc # 0

\* the payload of the job of the object the backend returned (empty without a job)
PayloadIn(h) ==
    IF h.allocs[env.outAlloc].Job = 0 THEN <<>>
    ELSE h.jobs[h.allocs[env.outAlloc].Job].Payload

\* C6 as stated: Get never mutates the allocation object the backend returned; with an
\* empty payload or no job there is no decompression and no copy, and the allocation is
\* returned unmodified.
C6_Original ==
    GotAlloc =>
        /\ heap.allocs[env.outAlloc] = env.heap.allocs[env.outAlloc]
        /\ PayloadIn(heap) = PayloadIn(env.heap)
        /\ Len(PayloadIn(env.heap)) = 0 =>
              /\ ops.decoded = 0
              /\ ops.copied = 0
              /\ ret.val = Some(env.outAlloc)
              /\ heap = env.heap

\* C6 as amended: Get never changes the job payload of the allocation object the backend
\* returned.  With a non-empty payload that decodes, the decoded bytes are stored in a
\* copy, which is returned, and the original is left as it was; with one that does not
\* decode, the error is returned and nothing is changed.  With an empty payload or no
\* job there is no decompression and no copy, and the backend's own object is returned,
\* changed in nothing but its event display messages, which are set.
C6_PayloadOfOriginalKept ==
    GotAlloc =>
        LET orig == env.outAlloc
            p == PayloadIn(env.heap)
        IN  /\ PayloadIn(heap) = p
            /\ heap.allocs[orig].Job = env.heap.allocs[orig].Job
            /\ (Len(p) # 0 /\ snappyDecode(p).err.nil) =>
                  /\ ops.decoded = 1 /\ ops.copied = 1
                  /\ ret.err.nil
                  /\ ~ret.val.nil /\ ret.val.v # orig
                  /\ heap.jobs[heap.allocs[ret.val.v].Job].Payload = snappyDecode(p).decoded
                  /\ heap.allocs[ret.val.v].Job # heap.allocs[orig].Job
                  /\ heap.allocs[orig] = env.heap.allocs[orig]
            /\ (Len(p) # 0 /\ ~snappyDecode(p).err.nil) =>
                  /\ ops.decoded = 1 /\ ops.copied = 0
                  /\ ~ret.err.nil /\ ret.val.nil
                  /\ heap = env.heap
            /\ Len(p) = 0 =>
                  /\ ops.decoded = 0 /\ ops.copied = 0
                  /\ ret.err.nil
                  /\ ret.val = Some(orig)
                  /\ heap = SetEventDisplayMessages(env.heap, orig)

C6_Witness ==
    /\ GotAlloc
    /\ Len(PayloadIn(env.heap)) = MaxPayloadLen
    /\ ops.copied = 1
    /\ ~ret.val.nil
    /\ ret.val.v # env.outAlloc
    /\ heap.jobs[heap.allocs[ret.val.v].Job].Payload # PayloadIn(heap)

\* C7: list, get, stats and snapshot answer any method but GET, and stop, restart and
\* signal any method but POST and PUT, with a 405 and issue no RPC.
C7_MethodNotAllowed ==
    /\ (endpoint \in {"List", "Get", "Stats", "Snapshot"} /\ req.method # "GET") =>
          (ret.err = CodedError(405, ErrInvalidMethod) /\ calls = <<>>)
    /\ (endpoint \in {"Stop", "Restart", "Signal"} /\ req.method \notin {"POST", "PUT"}) =>
          (ret.err = CodedError(405, ErrInvalidMethod) /\ calls = <<>>)

\* C8: the RPC method name depends only on the verb and the transport: the local client
\* is called with Allocations.<Verb>, the client and the server channel with
\* ClientAllocations.<Verb>, all with the request built from the path, query and body;
\* List, Get and Stop call Alloc.List, Alloc.GetAlloc and Alloc.Stop on the agent RPC
\* and never ask the resolver.
C8_MethodNames ==
    /\ endpoint \in RoutedVerbs =>
          \A i \in 1..Len(calls) :
              /\ calls[i].transport \in {"Client().ClientRPC", "Client().RPC", "Server().RPC"}
              /\ calls[i].method = IF calls[i].transport = "Client().ClientRPC"
                                   THEN LocalMethod(endpoint)
                                   ELSE ChannelMethod(endpoint)
              /\ calls[i].args = RequestOf(endpoint, req)
    /\ endpoint \in {"List", "Get", "Stop"} =>
          /\ resolved = 0
          /\ \A i \in 1..Len(calls) :
                 /\ calls[i].transport = "agent.RPC"
                 /\ calls[i].method = AgentMethod(endpoint)
          /\ (ret.err.code # 405 /\ ~env.parseAbort) => Len(calls) = 1

C8_Witness ==
    /\ endpoint = "Restart"
    /\ Len(calls) = 1
    /\ calls[1].transport = "Server().RPC"
    /\ calls[1].method = "ClientAllocations.Restart"

\* C9: a successful List returns a sequence: when the reply of Alloc.List carries no
\* allocation list the result is the empty sequence, never nil.
C9_ListNeverNil ==
    (endpoint = "List" /\ Len(calls) = 1 /\ ret.err.nil) =>
        /\ ~ret.val.nil
        /\ env.listReply.nil => ret.val.v = <<>>
        /\ ~env.listReply.nil => Len(ret.val.v) = Len(env.listReply.v)

C9_Witness ==
    /\ endpoint = "List"
    /\ Len(calls) = 1
    /\ ret.err.nil
    /\ env.listReply.nil
    /\ ret.val = Some(<<>>)

\* C10: Restart and Signal, called with a method they accept and a body that cannot be
\* decoded, fail with a 400 error without asking the resolver or issuing an RPC.
C10_UndecodableBodyIsBadRequest ==
    (endpoint \in {"Restart", "Signal"} /\ req.method \in {"POST", "PUT"} /\ ~req.body.ok) =>
        /\ ~ret.err.nil
        /\ ret.err.code = 400
        /\ resolved = 0
        /\ calls = <<>>

====
